---- MODULE Spec2Model ----
(***************************************************************************)
(* Model of emergent_protolearning.py: a population of neurons with a     *)
(* discrete state and a position on the unit square, a phase classifier   *)
(* (TensionSpider) that plasma neurons can replace, and a predator that   *)
(* removes nearby neurons.  One action, Update, models one call of        *)
(* update(frame); UpdateRaises models the call that ends in IndexError.   *)
(*                                                                         *)
(* Real numbers are fixed-point integers in units of 1/Q (Q = 1000, so    *)
(* RADIUS = 0.25 is 250).  Every arithmetic result is rounded the way a   *)
(* binary floating-point format rounds it (Fl): the representable values  *)
(* are spaced 1 unit apart below 1/4, 2 units in [1/4,1/2), 4 units in    *)
(* [1/2,1) and 8 units in [1,2), ties going to the even multiple.  That   *)
(* is IEEE-754 double with the precision scaled down: random.random()     *)
(* returns multiples of the spacing just below 1.0 (2^-53 there, 4 units  *)
(* here), while values near 0 are representable much more finely.         *)
(*                                                                         *)
(* Spec is the run from construction with the source's DRIFT, NOISE and   *)
(* PREDATOR_SPEED.  SpecStill, SpecPair and SpecHungry are runs of the    *)
(* same update with other parameters or from a later state of the run;    *)
(* SpecClusters calls detect_clusters, which update never calls.          *)
(***************************************************************************)
EXTENDS Integers, Sequences, FiniteSets, TLC

\* ------------------------------------------------------------------ bounds
MaxNeurons == 3
MaxSteps == 3
MaxInterval == 1
MaxPokeStep == 1

\* ------------------------------------------------- parameters of the source
\* fixed-point units per 1.0 (a multiple of 8: every binade boundary is a grid point)
Q == 8 * 125
RADIUS == 250
DRIFT == 10
NOISE == 50
POKE_VALUE == 3
PREDATOR_INTERVAL == 100
PREDATOR_SPEED == 50
PREDATOR_RADIUS == 50
SOLID == "solid"
LIQUID == "liquid"
PLASMA == "plasma"
\* the number of frames FuncAnimation runs, scaled down
STEPS == MaxSteps

\* ------------------------------------------------------ drawn random values
\* random.random() returns multiples of 4 units in [0, Q)
\* the populations the constructor draws, as <<x, y, state>> per neuron (x and y are
\* random.random() values): one neuron; two neighbours in the same state and in
\* different states; two neurons out of each other's reach; three and four mutual
\* neighbours.  Init takes those of NUM_NEURONS neurons
Populations == {<<<<0, 0, 1>>>>,
                <<<<0, 0, 1>>, <<80, 0, 1>>>>,
                <<<<0, 0, 1>>, <<80, 0, 2>>>>,
                <<<<0, 0, 2>>, <<600, 600, 2>>>>,
                <<<<0, 0, 1>>, <<80, 0, 2>>, <<0, 80, 3>>>>,
                <<<<0, 0, 1>>, <<80, 0, 1>>, <<0, 80, 2>>>>,
                <<<<0, 0, 1>>, <<80, 0, 2>>, <<0, 80, 3>>, <<80, 80, 3>>>>}
\* the position a new predator draws
SpawnPositions == {<<100, 0>>}
\* what a neuron draws in a step: k is the randint(1,3) value or 2 + the
\* choice([-1,0,1]) value, rx and ry the random.random() values of its noise (a
\* noise of -1 unit and none; none; 25 units and -25 units)
NeuronDraws == {[k |-> 1, rx |-> 480, ry |-> 500],
                [k |-> 2, rx |-> 500, ry |-> 500],
                [k |-> 3, rx |-> 996, ry |-> 0]}
\* the two random.random() values behind the uniform() calls of a new spider
SpiderDraws == {<<0, 0>>, <<996, 996>>}
\* headings: (cos, sin) of the drawn angle, in units of 1/Q
AngleDraws == {<<Q, 0>>, <<0 - Q, 0>>}
\* the teleport coin random.random() and the teleport position
TeleportDraws == {[coin |-> 0, x |-> 600, y |-> 600], [coin |-> 500, x |-> 0, y |-> 0]}

\* the agent lists and radii detect_clusters is called with: lists of up to
\* MaxNeurons agents at these places in these states
ClusterPlaces == {<<0, 0>>, <<200, 0>>, <<400, 0>>, <<200, 200>>}
ClusterStates == {1, 2}
ClusterRadii == {RADIUS, 300}

\* the still-predator scenario: agents away from the edges of the square, and the
\* positions a predator is constructed at, 48 units (PREDATOR_RADIUS less 2 units)
\* to the left and to the right of the first agent
StillPopulations == {<<<<500, 500, 1>>>>,
                     <<<<500, 500, 1>>, <<580, 500, 1>>>>,
                     <<<<500, 500, 1>>, <<580, 500, 1>>, <<500, 580, 2>>>>,
                     <<<<500, 500, 1>>, <<580, 500, 1>>, <<500, 580, 2>>, <<580, 580, 2>>>>}
StillPositions == {<<452, 500>>, <<548, 500>>}

\* the two-agent scenario: the place of the first agent and the offset of the
\* second from it (below RADIUS), both random.random() values
PairPlaces == {<<0, 0>>, <<240, 240>>, <<500, 500>>, <<900, 100>>}
PairOffsets == {<<80, 0>>, <<8, 0>>, <<4, 4>>, <<0, 16>>, <<96, 200>>}

\* the hungry predator, 50 steps after the step that spawned it: the populations
\* left by then and where the predator is
HungryPopulations == {<<<<600, 640, 1>>>>,
                      <<<<600, 640, 1>>, <<480, 300, 2>>>>,
                      <<<<600, 640, 1>>, <<480, 300, 2>>, <<148, 320, 3>>>>,
                      <<<<600, 640, 1>>, <<480, 300, 2>>, <<148, 320, 3>>, <<600, 560, 1>>>>}
HungryPositions == {<<300, 300>>}

VARIABLES neurons, spider, predator, predator_timer, frame, cfg, error, hist, detected

vars == <<neurons, spider, predator, predator_timer, frame, cfg, error, hist, detected>>

\* ------------------------------------------------------------- arithmetic
Abs(v) == IF v < 0 THEN 0 - v ELSE v

\* n/d rounded to the nearest integer, ties to even (d > 0)
RoundHalfEven(n, d) ==
  LET q == n \div d
      r == n - q * d
  IN  IF 2 * r < d THEN q
      ELSE IF 2 * r > d THEN q + 1
      ELSE IF q % 2 = 0 THEN q ELSE q + 1

\* distance between neighbouring representable values at magnitude a
Spacing(a) ==
  IF a < Q \div 4 THEN 1
  ELSE IF a < Q \div 2 THEN 2
  ELSE IF a < Q THEN 4
  ELSE 8

\* the rational n/d (in units) rounded to a representable value
FlRat(n, d) ==
  LET s == Spacing(Abs(n) \div d)
  IN  s * RoundHalfEven(n, d * s)

\* the result of a floating-point operation whose exact value is v units
Fl(v) == FlRat(v, 1)

\* Python's float v % 1.0: fmod(v, 1.0), and when that is negative, plus 1.0, rounded
PyMod1(v) ==
  IF v >= 0 THEN v % Q
  ELSE LET m == 0 - ((0 - v) % Q)
       IN  IF m = 0 THEN 0 ELSE Fl(m + Q)

\* a * b for two values in units
Mul(a, b) == FlRat(a * b, Q)

Min(a, b) == IF a < b THEN a ELSE b
Max(a, b) == IF a > b THEN a ELSE b

\* ----------------------------------------------------------------- Neuron
Neuron(i, pos, s) ==
  [id |-> i, x |-> pos[1], y |-> pos[2], state |-> s, phase |-> LIQUID, memory |-> s]

\* math.hypot(a.x - b.x, a.y - b.y) < r, on the squares
distance_lt(a, b, r) ==
  (a.x - b.x) * (a.x - b.x) + (a.y - b.y) * (a.y - b.y) < r * r

\* ---------------------------------------------------------- TensionSpider
TensionSpider(i, solid, plasma) ==
  [id |-> i, solid_thresh |-> solid, plasma_thresh |-> plasma]

RECURSIVE SumSeq(_)
SumSeq(s) == IF s = <<>> THEN 0 ELSE Head(s) + SumSeq(Tail(s))

\* the states of the neurons ns at the indices idx
StatesOf(ns, idx) == [j \in 1..Len(idx) |-> ns[idx[j]].state]

\* variance < t and variance > t for the population variance of values, which is
\* (k*sum(v^2) - sum(v)^2) / k^2, against a threshold of t units
VarNum(values) ==
  Len(values) * SumSeq([j \in 1..Len(values) |-> values[j] * values[j]])
    - SumSeq(values) * SumSeq(values)
VarianceLt(values, t) == Q * VarNum(values) < t * Len(values) * Len(values)
VarianceGt(values, t) == Q * VarNum(values) > t * Len(values) * Len(values)

\* apply without the test for an empty neighbour list
applyUnguarded(sp, values) ==
  IF VarianceLt(values, sp.solid_thresh) THEN SOLID
  ELSE IF VarianceGt(values, sp.plasma_thresh) THEN PLASMA
  ELSE LIQUID

\* TensionSpider.apply: the phase given to a neuron with these neighbour states
apply(sp, values) ==
  IF values = <<>> THEN PLASMA
  ELSE IF VarianceLt(values, sp.solid_thresh) THEN SOLID
  ELSE IF VarianceGt(values, sp.plasma_thresh) THEN PLASMA
  ELSE LIQUID

\* random.uniform(a, b) = a + (b - a) * random.random()
uniform(a, b, r) == Fl(a + Mul(b - a, r))

\* plasma_mutate_spider replacing the spider whether or not a neuron is PLASMA
plasma_mutate_always(ns, sp, newId, draw) ==
  TensionSpider(newId, uniform(100, 400, draw[1]), uniform(600, 900, draw[2]))

plasma_mutate_spider(ns, sp, newId, draw) ==
  IF \E i \in 1..Len(ns) : ns[i].phase = PLASMA
  THEN TensionSpider(newId, uniform(100, 400, draw[1]), uniform(600, 900, draw[2]))
  ELSE sp

\* --------------------------------------------------------------- Predator
Predator(i, pos) ==
  [id |-> i, x |-> pos[1], y |-> pos[2], neurons_eaten |-> 0, hunger_timer |-> 0]

\* move counting the step towards the hunger only when the predator does not teleport
moveTeleportKeepsHunger(p, a, t) ==
  LET speed == FlRat(cfg.PREDATOR_SPEED * (50 + 2 * p.hunger_timer), 50)
  IN  IF p.hunger_timer > 50 /\ t.coin < 200
      THEN [p EXCEPT !.x = t.x, !.y = t.y]
      ELSE [p EXCEPT !.x = PyMod1(Fl(p.x + Mul(speed, a[1]))),
                     !.y = PyMod1(Fl(p.y + Mul(speed, a[2]))),
                     !.hunger_timer = @ + 1]

\* move stepping at the speed of line 21 whatever PREDATOR_SPEED is set to
moveDefaultSpeed(p, a, t) ==
  LET speed == FlRat(PREDATOR_SPEED * (50 + 2 * p.hunger_timer), 50)
  IN  IF p.hunger_timer > 50 /\ t.coin < 200
      THEN [p EXCEPT !.x = t.x, !.y = t.y, !.hunger_timer = @ + 1]
      ELSE [p EXCEPT !.x = PyMod1(Fl(p.x + Mul(speed, a[1]))),
                     !.y = PyMod1(Fl(p.y + Mul(speed, a[2]))),
                     !.hunger_timer = @ + 1]

\* Predator.move with heading a and teleport draw t
move(p, a, t) ==
  LET speed == FlRat(cfg.PREDATOR_SPEED * (50 + 2 * p.hunger_timer), 50)
  IN  IF p.hunger_timer > 50 /\ t.coin < 200
      THEN [p EXCEPT !.x = t.x, !.y = t.y, !.hunger_timer = @ + 1]
      ELSE [p EXCEPT !.x = PyMod1(Fl(p.x + Mul(speed, a[1]))),
                     !.y = PyMod1(Fl(p.y + Mul(speed, a[2]))),
                     !.hunger_timer = @ + 1]

eat(p) == [p EXCEPT !.neurons_eaten = @ + 1, !.hunger_timer = 0]

\* ------------------------------------------------------- stages of update
\* Poke applied from POKE_STEP on (step >= POKE_STEP)
PokeFromStep(ns, step) ==
  IF step >= cfg.POKE_STEP /\ cfg.POKE_NEURON < Len(ns)
  THEN [ns EXCEPT ![cfg.POKE_NEURON + 1].state = POKE_VALUE,
                  ![cfg.POKE_NEURON + 1].phase = LIQUID]
  ELSE ns

\* Poke writing the poke value to the memory as well
PokeCommits(ns, step) ==
  IF step = cfg.POKE_STEP
  THEN [ns EXCEPT ![cfg.POKE_NEURON + 1].state = POKE_VALUE,
                  ![cfg.POKE_NEURON + 1].memory = POKE_VALUE,
                  ![cfg.POKE_NEURON + 1].phase = LIQUID]
  ELSE ns

\* the poke of lines 150-152
Poke(ns, step) ==
  IF step = cfg.POKE_STEP
  THEN [ns EXCEPT ![cfg.POKE_NEURON + 1].state = POKE_VALUE,
                  ![cfg.POKE_NEURON + 1].phase = LIQUID]
  ELSE ns

\* SpawnPredator spawning one step early (timer <= 1)
SpawnPredatorEarly(p, timer, pos) ==
  IF timer <= 1
  THEN [predator |-> <<Predator(IF p = <<>> THEN 1 ELSE p[1].id + 1, pos)>>,
        predator_timer |-> cfg.PREDATOR_INTERVAL]
  ELSE [predator |-> p, predator_timer |-> timer - 1]

\* SpawnPredator spawning once the countdown is below 0 (timer < 0)
SpawnPredatorLate(p, timer, pos) ==
  IF timer < 0
  THEN [predator |-> <<Predator(IF p = <<>> THEN 1 ELSE p[1].id + 1, pos)>>,
        predator_timer |-> cfg.PREDATOR_INTERVAL]
  ELSE [predator |-> p, predator_timer |-> timer - 1]

\* SpawnPredator counting down and spawning only while no predator exists
SpawnPredatorOnce(p, timer, pos) ==
  IF p # <<>> THEN [predator |-> p, predator_timer |-> timer]
  ELSE IF timer <= 0
  THEN [predator |-> <<Predator(1, pos)>>, predator_timer |-> cfg.PREDATOR_INTERVAL]
  ELSE [predator |-> p, predator_timer |-> timer - 1]

\* the spawn of lines 156-161: the predator (a sequence of at most one) and the timer
SpawnPredator(p, timer, pos) ==
  IF timer <= 0
  THEN [predator |-> <<Predator(IF p = <<>> THEN 1 ELSE p[1].id + 1, pos)>>,
        predator_timer |-> cfg.PREDATOR_INTERVAL]
  ELSE [predator |-> p, predator_timer |-> timer - 1]

\* the indices of the neighbours of neuron i, in list order
NeighborsOf(ns, i) ==
  SelectSeq([j \in 1..Len(ns) |-> j],
            LAMBDA j : distance_lt(ns[i], ns[j], RADIUS) /\ j # i)

Neighborhoods(ns) == [i \in 1..Len(ns) |-> NeighborsOf(ns, i)]

PhaseUpdates(ns, nbh, sp) ==
  [i \in 1..Len(ns) |-> [ns[i] EXCEPT !.phase = apply(sp, StatesOf(ns, nbh[i]))]]

\* StateUpdate without the clamp of line 184
StateUpdateUnclamped(ns, i, nb, k) ==
  LET n == ns[i]
      s == IF n.phase = PLASMA THEN k
           ELSE IF n.phase = LIQUID /\ nb # <<>>
             THEN RoundHalfEven(SumSeq(StatesOf(ns, nb)), Len(nb)) + (k - 2)
           ELSE IF n.phase = SOLID THEN n.memory
           ELSE n.state
  IN  [n EXCEPT !.state = s, !.memory = s]

\* the body of the state-update loop for neuron i, reading the list as it is now
StateUpdate(ns, i, nb, k) ==
  LET n == ns[i]
      s == IF n.phase = PLASMA THEN k
           ELSE IF n.phase = LIQUID /\ nb # <<>>
             THEN Max(1, Min(3, RoundHalfEven(SumSeq(StatesOf(ns, nb)), Len(nb)) + (k - 2)))
           ELSE IF n.phase = SOLID THEN n.memory
           ELSE n.state
  IN  [n EXCEPT !.state = s, !.memory = s]

RECURSIVE StateUpdates(_, _, _, _)
StateUpdates(ns, nbh, draws, i) ==
  IF i > Len(ns) THEN ns
  ELSE StateUpdates([ns EXCEPT ![i] = StateUpdate(ns, i, nbh[i], draws[i].k)],
                     nbh, draws, i + 1)

\* Drift with attraction and repulsion exchanged
RECURSIVE DriftRepels(_, _, _, _)
DriftRepels(n, ns, nb, j) ==
  IF j > Len(nb) THEN n
  ELSE LET m == ns[nb[j]]
           dx == Fl(m.x - n.x)
           dy == Fl(m.y - n.y)
       IN  IF n.state # m.state
           THEN DriftRepels([n EXCEPT !.x = Fl(n.x + Mul(cfg.DRIFT, dx)),
                                      !.y = Fl(n.y + Mul(cfg.DRIFT, dy))], ns, nb, j + 1)
           ELSE DriftRepels([n EXCEPT !.x = Fl(n.x - Mul(cfg.DRIFT, dx)),
                                      !.y = Fl(n.y - Mul(cfg.DRIFT, dy))], ns, nb, j + 1)

\* the inner loop of the spatial update: neuron n pulled or pushed by ns[nb[j..]]
RECURSIVE Drift(_, _, _, _)
Drift(n, ns, nb, j) ==
  IF j > Len(nb) THEN n
  ELSE LET m == ns[nb[j]]
           dx == Fl(m.x - n.x)
           dy == Fl(m.y - n.y)
       IN  IF n.state = m.state
           THEN Drift([n EXCEPT !.x = Fl(n.x + Mul(cfg.DRIFT, dx)),
                                !.y = Fl(n.y + Mul(cfg.DRIFT, dy))], ns, nb, j + 1)
           ELSE Drift([n EXCEPT !.x = Fl(n.x - Mul(cfg.DRIFT, dx)),
                                !.y = Fl(n.y - Mul(cfg.DRIFT, dy))], ns, nb, j + 1)

\* NOISE * (random.random() - 0.5)
Noise(r) == Mul(cfg.NOISE, Fl(r - Q \div 2))

SpatialUpdate(ns, i, nb, d) ==
  LET n == Drift(ns[i], ns, nb, 1)
  IN  [n EXCEPT !.x = PyMod1(Fl(n.x + Noise(d.rx))),
                !.y = PyMod1(Fl(n.y + Noise(d.ry)))]

RECURSIVE SpatialUpdates(_, _, _, _)
SpatialUpdates(ns, nbh, draws, i) ==
  IF i > Len(ns) THEN ns
  ELSE SpatialUpdates([ns EXCEPT ![i] = SpatialUpdate(ns, i, nbh[i], draws[i])],
                      nbh, draws, i + 1)

\* Predation appending the survivors to the list it scans instead of to an empty one
RECURSIVE PredationKeepsList(_, _, _, _)
PredationKeepsList(ns, i, p, rem) ==
  IF i > Len(ns) THEN [predator |-> p, neurons |-> ns \o rem]
  ELSE IF distance_lt(ns[i], p, PREDATOR_RADIUS)
       THEN PredationKeepsList(ns, i + 1, eat(p), rem)
       ELSE PredationKeepsList(ns, i + 1, p, Append(rem, ns[i]))

\* Predation putting every survivor at the front of the new list
RECURSIVE PredationPrepends(_, _, _, _)
PredationPrepends(ns, i, p, rem) ==
  IF i > Len(ns) THEN [predator |-> p, neurons |-> rem]
  ELSE IF distance_lt(ns[i], p, PREDATOR_RADIUS)
       THEN PredationPrepends(ns, i + 1, eat(p), rem)
       ELSE PredationPrepends(ns, i + 1, p, <<ns[i]>> \o rem)

\* Predation eating at distance <= PREDATOR_RADIUS
RECURSIVE PredationInclusive(_, _, _, _)
PredationInclusive(ns, i, p, rem) ==
  IF i > Len(ns) THEN [predator |-> p, neurons |-> rem]
  ELSE IF ~distance_lt(p, ns[i], PREDATOR_RADIUS + 1)
       THEN PredationInclusive(ns, i + 1, p, Append(rem, ns[i]))
       ELSE PredationInclusive(ns, i + 1, eat(p), rem)

\* the predation loop of lines 207-213 over ns[i..], from predator p and survivors rem
RECURSIVE Predation(_, _, _, _)
Predation(ns, i, p, rem) ==
  IF i > Len(ns) THEN [predator |-> p, neurons |-> rem]
  ELSE IF distance_lt(ns[i], p, PREDATOR_RADIUS)
       THEN Predation(ns, i + 1, eat(p), rem)
       ELSE Predation(ns, i + 1, p, Append(rem, ns[i]))

\* -------------------------------------------------------- detect_clusters
\* the for loop of lines 122-125 from index j on, for the seed n: the cluster and
\* the to_check stack it leaves (indices are the 0-based indices of the source)
RECURSIVE ClusterScan(_, _, _, _, _, _, _)
ClusterScan(ns, n, radius, visited, cluster, to_check, j) ==
  IF j >= Len(ns) THEN [cluster |-> cluster, to_check |-> to_check]
  ELSE LET m == ns[j + 1]
       IN  IF j \notin visited /\ n.state = m.state /\ distance_lt(n, m, radius)
           THEN ClusterScan(ns, n, radius, visited, cluster \cup {j},
                            Append(to_check, j), j + 1)
           ELSE ClusterScan(ns, n, radius, visited, cluster, to_check, j + 1)

\* the while loop of lines 119-125 for the seed n: pop the last index, mark it
\* visited, scan
RECURSIVE ClusterTraverse(_, _, _, _, _, _)
ClusterTraverse(ns, n, radius, visited, cluster, to_check) ==
  IF to_check = <<>> THEN [visited |-> visited, cluster |-> cluster]
  ELSE LET idx == to_check[Len(to_check)]
           seen == visited \cup {idx}
           r == ClusterScan(ns, n, radius, seen, cluster,
                            SubSeq(to_check, 1, Len(to_check) - 1), 0)
       IN  ClusterTraverse(ns, n, radius, seen, r.cluster, r.to_check)

\* ClusterSeeds starting a cluster from every index, visited or not
RECURSIVE ClusterSeedsAll(_, _, _, _, _)
ClusterSeedsAll(ns, radius, i, visited, clusters) ==
  IF i >= Len(ns) THEN clusters
  ELSE LET r == ClusterTraverse(ns, ns[i + 1], radius, visited, {i}, <<i>>)
       IN  ClusterSeedsAll(ns, radius, i + 1, r.visited, Append(clusters, r.cluster))

\* the outer loop of lines 114-126 from index i on
RECURSIVE ClusterSeeds(_, _, _, _, _)
ClusterSeeds(ns, radius, i, visited, clusters) ==
  IF i >= Len(ns) THEN clusters
  ELSE IF i \in visited THEN ClusterSeeds(ns, radius, i + 1, visited, clusters)
  ELSE LET r == ClusterTraverse(ns, ns[i + 1], radius, visited, {i}, <<i>>)
       IN  ClusterSeeds(ns, radius, i + 1, r.visited, Append(clusters, r.cluster))

\* detect_clusters(neurons, radius): the list of clusters, each a set of indices
detect_clusters(ns, radius) == ClusterSeeds(ns, radius, 0, {}, <<>>)

\* ------------------------------------------------------------------ state
\* the run parameters: NUM_NEURONS, POKE_STEP, POKE_NEURON and PREDATOR_INTERVAL are
\* 20, 50, 5 and 100 in the source and any small value here; nothing validates them.
\* STEPS, DRIFT, NOISE and PREDATOR_SPEED are the module-level values of lines 11-21
Configs ==
  [NUM_NEURONS : 1..MaxNeurons,
   POKE_STEP : 0..MaxPokeStep,
   POKE_NEURON : 0..(MaxNeurons - 1),
   PREDATOR_INTERVAL : 0..MaxInterval,
   STEPS : {STEPS},
   DRIFT : {DRIFT},
   NOISE : {NOISE},
   PREDATOR_SPEED : {PREDATOR_SPEED}]

NoHist ==
  [step |-> 0 - 1, pre |-> <<>>, poked |-> <<>>, neighborhoods |-> <<>>, classified |-> <<>>,
   spider |-> <<>>, stated |-> <<>>, placed |-> <<>>, timer |-> 0,
   before |-> <<>>, spawned |-> <<>>, moved |-> <<>>, rnd |-> <<>>]

Init ==
  /\ cfg \in Configs
  /\ \E pop \in {l \in Populations : Len(l) = cfg.NUM_NEURONS} :
       neurons = [i \in 1..Len(pop) |-> Neuron(i - 1, <<pop[i][1], pop[i][2]>>, pop[i][3])]
  /\ spider = TensionSpider(0, 200, 800)
  /\ predator = <<>>
  /\ predator_timer = cfg.PREDATOR_INTERVAL
  /\ frame = 0
  /\ error = "none"
  /\ hist = NoHist
  /\ detected = <<>>

\* the phases update(step) assigns, which do not depend on a draw
Classified(step) ==
  LET poked == Poke(neurons, step)
  IN  PhaseUpdates(poked, Neighborhoods(poked), spider)

\* the random values update(step) draws in the current state, a new predator's
\* position among positions.  To bound the search the neurons of one call all draw
\* the same NeuronDraws value, and a draw the call does not make is fixed to the
\* first value of its set
DrawsAt(step, positions) ==
  LET hunts == predator_timer <= 0 \/ predator # <<>>
  IN  [neuron : {[i \in 1..Len(neurons) |-> d] : d \in NeuronDraws},
       spider : IF \E i \in 1..Len(neurons) : Classified(step)[i].phase = PLASMA
                THEN SpiderDraws ELSE {CHOOSE d \in SpiderDraws : TRUE},
       spawn : IF predator_timer <= 0
               THEN positions ELSE {CHOOSE d \in positions : TRUE},
       angle : IF hunts THEN AngleDraws ELSE {CHOOSE d \in AngleDraws : TRUE},
       teleport : IF predator_timer > 0 /\ predator # <<>> /\ predator[1].hunger_timer > 50
                  THEN TeleportDraws ELSE {CHOOSE d \in TeleportDraws : TRUE}]

Draws(step) == DrawsAt(step, SpawnPositions)

\* update(step) with the random values rnd: the globals it leaves and, in hist, the
\* value of every stage and the random values
update(step, rnd) ==
  LET poked == Poke(neurons, step)
      sp == SpawnPredator(predator, predator_timer, rnd.spawn)
      nbh == Neighborhoods(poked)
      classified == PhaseUpdates(poked, nbh, spider)
      spider2 == plasma_mutate_spider(classified, spider, spider.id + 1, rnd.spider)
      stated == StateUpdates(classified, nbh, rnd.neuron, 1)
      placed == SpatialUpdates(stated, nbh, rnd.neuron, 1)
      moved == IF sp.predator = <<>> THEN <<>>
               ELSE <<move(sp.predator[1], rnd.angle, rnd.teleport)>>
      fed == IF moved = <<>> THEN [predator |-> <<>>, neurons |-> placed]
             ELSE LET r == Predation(placed, 1, moved[1], <<>>)
                  IN  [predator |-> <<r.predator>>, neurons |-> r.neurons]
  IN  [neurons |-> fed.neurons, spider |-> spider2, predator |-> fed.predator,
       predator_timer |-> sp.predator_timer,
       hist |-> [step |-> step, pre |-> neurons, poked |-> poked, neighborhoods |-> nbh,
                 classified |-> classified, spider |-> <<spider>>,
                 stated |-> stated, placed |-> placed, timer |-> predator_timer,
                 before |-> predator, spawned |-> sp.predator, moved |-> moved,
                 rnd |-> rnd]]

\* update(frame), the call that returns, with its random values among those of D
UpdateDrawing(D) ==
  /\ error = "none"
  /\ frame < cfg.STEPS
  /\ frame = cfg.POKE_STEP => cfg.POKE_NEURON < Len(neurons)
  /\ \E rnd \in D :
       \E r \in {update(frame, rnd)} :
         /\ neurons' = r.neurons
         /\ spider' = r.spider
         /\ predator' = r.predator
         /\ predator_timer' = r.predator_timer
         /\ hist' = r.hist
  /\ frame' = frame + 1
  /\ UNCHANGED <<cfg, error, detected>>

Update == UpdateDrawing(Draws(frame))

\* update(frame), the call in which neurons[POKE_NEURON] raises IndexError
UpdateRaises ==
  /\ error = "none"
  /\ frame < cfg.STEPS
  /\ frame = cfg.POKE_STEP
  /\ cfg.POKE_NEURON >= Len(neurons)
  /\ error' = "IndexError"
  /\ UNCHANGED <<neurons, spider, predator, predator_timer, frame, cfg, hist, detected>>

Next == Update \/ UpdateRaises

Spec == Init /\ [][Next]_vars

\* ------------------------------------------------ the still predator
\* PREDATOR_SPEED set to 0 and no poke during the run
StillConfigs ==
  [NUM_NEURONS : 1..MaxNeurons,
   POKE_STEP : {STEPS},
   POKE_NEURON : {0},
   PREDATOR_INTERVAL : 0..MaxInterval,
   STEPS : {STEPS},
   DRIFT : {DRIFT},
   NOISE : {NOISE},
   PREDATOR_SPEED : {0}]

\* the caller has constructed the population and, before the first call of update,
\* either no predator or a Predator() beside the first agent
InitStill ==
  /\ cfg \in StillConfigs
  /\ \E pop \in {l \in StillPopulations : Len(l) = cfg.NUM_NEURONS} :
       neurons = [i \in 1..Len(pop) |-> Neuron(i - 1, <<pop[i][1], pop[i][2]>>, pop[i][3])]
  /\ spider = TensionSpider(0, 200, 800)
  /\ predator \in {<<>>} \cup {<<Predator(1, pos)>> : pos \in StillPositions}
  /\ predator_timer = cfg.PREDATOR_INTERVAL
  /\ frame = 0
  /\ error = "none"
  /\ hist = NoHist
  /\ detected = <<>>

UpdateStill == UpdateDrawing(DrawsAt(frame, StillPositions))

NextStill == UpdateStill

SpecStill == InitStill /\ [][NextStill]_vars

\* ------------------------------------------------- the pair of agents
\* two agents, NOISE set to 0 and DRIFT to 0.1, no predator before the run ends, and
\* a poke of one of the two
PairConfigs ==
  [NUM_NEURONS : {2},
   POKE_STEP : 0..MaxPokeStep,
   POKE_NEURON : {0, 1},
   PREDATOR_INTERVAL : {STEPS},
   STEPS : {STEPS},
   DRIFT : {100},
   NOISE : {0},
   PREDATOR_SPEED : {PREDATOR_SPEED}]

\* two agents constructed in the same state and less than RADIUS apart
InitPair ==
  /\ cfg \in PairConfigs
  /\ \E pos \in PairPlaces, off \in PairOffsets, st \in {1, 2, 3} :
       neurons = <<Neuron(0, pos, st),
                   Neuron(1, <<pos[1] + off[1], pos[2] + off[2]>>, st)>>
  /\ spider = TensionSpider(0, 200, 800)
  /\ predator = <<>>
  /\ predator_timer = cfg.PREDATOR_INTERVAL
  /\ frame = 0
  /\ error = "none"
  /\ hist = NoHist
  /\ detected = <<>>

UpdatePair == UpdateDrawing(Draws(frame))

NextPair == UpdatePair

SpecPair == InitPair /\ [][NextPair]_vars

\* ------------------------------------------------ the hungry predator
\* the source's PREDATOR_INTERVAL, and a run that goes on for MaxSteps steps from
\* step PREDATOR_INTERVAL + 50
HungryConfigs ==
  [NUM_NEURONS : 1..MaxNeurons,
   POKE_STEP : 0..MaxPokeStep,
   POKE_NEURON : {0},
   PREDATOR_INTERVAL : {PREDATOR_INTERVAL},
   STEPS : {PREDATOR_INTERVAL + 50 + MaxSteps},
   DRIFT : {DRIFT},
   NOISE : {NOISE},
   PREDATOR_SPEED : {PREDATOR_SPEED}]

\* the run after step PREDATOR_INTERVAL + 49: the countdown has reached 0 after
\* PREDATOR_INTERVAL steps, step PREDATOR_INTERVAL has spawned the predator and
\* reset the countdown, and in the 50 steps it has moved the predator has eaten
\* nothing: its hunger timer is 50 and the countdown is PREDATOR_INTERVAL - 49
InitHungry ==
  /\ cfg \in HungryConfigs
  /\ \E pop \in {l \in HungryPopulations : Len(l) = cfg.NUM_NEURONS} :
       neurons = [i \in 1..Len(pop) |-> Neuron(i - 1, <<pop[i][1], pop[i][2]>>, pop[i][3])]
  /\ spider = TensionSpider(0, 200, 800)
  /\ \E pos \in HungryPositions :
       predator = <<[Predator(1, pos) EXCEPT !.hunger_timer = 50]>>
  /\ predator_timer = cfg.PREDATOR_INTERVAL - 49
  /\ frame = cfg.PREDATOR_INTERVAL + 50
  /\ error = "none"
  /\ hist = NoHist
  /\ detected = <<>>

UpdateHungry == UpdateDrawing(Draws(frame))

NextHungry == UpdateHungry

SpecHungry == InitHungry /\ [][NextHungry]_vars

\* ------------------------------------------- detect_clusters on its own
\* the agent lists of up to n agents
RECURSIVE AgentLists(_)
AgentLists(n) ==
  IF n = 0 THEN {<<>>}
  ELSE LET shorter == AgentLists(n - 1)
       IN  shorter \cup {Append(l, Neuron(Len(l), pos, st)) :
                           l \in {k \in shorter : Len(k) = n - 1},
                           pos \in ClusterPlaces, st \in ClusterStates}

\* update never calls detect_clusters; a caller passes it an agent list
InitClusters ==
  /\ cfg = CHOOSE c \in Configs : TRUE
  /\ neurons \in AgentLists(MaxNeurons)
  /\ spider = TensionSpider(0, 200, 800)
  /\ predator = <<>>
  /\ predator_timer = cfg.PREDATOR_INTERVAL
  /\ frame = 0
  /\ error = "none"
  /\ hist = NoHist
  /\ detected = <<>>

\* one call detect_clusters(neurons, radius), recorded with its arguments
DetectClusters ==
  /\ detected = <<>>
  /\ \E radius \in ClusterRadii :
       detected' = <<[radius |-> radius, agents |-> neurons,
                      clusters |-> detect_clusters(neurons, radius)]>>
  /\ UNCHANGED <<neurons, spider, predator, predator_timer, frame, cfg, error, hist>>

NextClusters == DetectClusters

SpecClusters == InitClusters /\ [][NextClusters]_vars

\* ------------------------------------------------------------------ claims
Ids(ns) == {ns[i].id : i \in 1..Len(ns)}

\* a call of update has returned, and hist holds its stages
Stepped == hist.step >= 0

\* C1: after every completed step every neuron of the population has a state in
\* {1,2,3} and a memory equal to its state
C1_StateInRange ==
  \A i \in 1..Len(neurons) :
    neurons[i].state \in {1, 2, 3} /\ neurons[i].memory = neurons[i].state

\* a completed poke step in which the predator ate and a LIQUID neuron went
\* through the averaging rule and survived
C1_Witness ==
  /\ Stepped
  /\ hist.step = cfg.POKE_STEP
  /\ Len(neurons) < Len(hist.placed)
  /\ \E i \in 1..Len(hist.classified) :
       /\ hist.classified[i].phase = LIQUID
       /\ hist.classified[i].id \in Ids(neurons)

C4_NoBirths ==
  [][Len(neurons') <= Len(neurons) /\ Ids(neurons') \subseteq Ids(neurons)]_vars

\* a step after the predator has removed a neuron
C4_Witness ==
  /\ Stepped
  /\ Len(hist.pre) < cfg.NUM_NEURONS
  /\ Len(neurons) < Len(hist.pre)

\* C5: in a step with a predator, the neurons removed are exactly those at a distance
\* below PREDATOR_RADIUS from the moved predator, and the eaten count grows by their
\* number
C5_PredationExact ==
  (Stepped /\ hist.moved # <<>>)
    => LET p == hist.moved[1]
           ns == hist.placed
           gone == {i \in 1..Len(ns) :
                      (ns[i].x - p.x) * (ns[i].x - p.x) + (ns[i].y - p.y) * (ns[i].y - p.y)
                        < PREDATOR_RADIUS * PREDATOR_RADIUS}
       IN  /\ Ids(neurons) = {ns[i].id : i \in (1..Len(ns)) \ gone}
           /\ Len(neurons) = Len(ns) - Cardinality(gone)
           /\ predator[1].neurons_eaten = p.neurons_eaten + Cardinality(gone)

\* a step in which one neuron was eaten and another, exactly PREDATOR_RADIUS away
\* from the predator, was not
C5_Witness ==
  /\ Stepped
  /\ hist.moved # <<>>
  /\ Len(neurons) < Len(hist.placed)
  /\ \E i \in 1..Len(neurons) :
       (neurons[i].x - predator[1].x) * (neurons[i].x - predator[1].x)
         + (neurons[i].y - predator[1].y) * (neurons[i].y - predator[1].y)
         = PREDATOR_RADIUS * PREDATOR_RADIUS


\* C6: when the classification of a step finds a PLASMA neuron, the next step's
\* spider is a new one with solid_thresh in [0.1,0.4] and plasma_thresh in [0.6,0.9];
\* when it finds none, the spider is the same object, unchanged; and the phases the
\* state update of this step worked from are those of the spider the step began with
C6_SpiderMutation ==
  Stepped
    => LET old == hist.spider[1]
           plasma == \E i \in 1..Len(hist.classified) : hist.classified[i].phase = PLASMA
       IN  /\ plasma => /\ spider.id # old.id
                        /\ spider.solid_thresh >= 100 /\ spider.solid_thresh <= 400
                        /\ spider.plasma_thresh >= 600 /\ spider.plasma_thresh <= 900
           /\ ~plasma => spider = old
           /\ \A i \in 1..Len(hist.stated) :
                hist.stated[i].phase
                  = apply(old, StatesOf(hist.poked, hist.neighborhoods[i]))

\* a step classified one neuron PLASMA and another one LIQUID, the LIQUID one took
\* a new state from the averaging rule, and the spider was replaced by one with
\* other thresholds
C6_Witness ==
  /\ Stepped
  /\ \E i \in 1..Len(hist.classified) : hist.classified[i].phase = PLASMA
  /\ \E i \in 1..Len(hist.classified) :
       /\ hist.classified[i].phase = LIQUID
       /\ hist.stated[i].state # hist.classified[i].state
  /\ spider.id = hist.spider[1].id + 1
  /\ spider.solid_thresh # hist.spider[1].solid_thresh

\* C7: a neuron with no other neuron at a distance below RADIUS at the start of a
\* step is classified PLASMA in that step, whatever its state, its previous phase
\* and the thresholds
C7_IsolatedIsPlasma ==
  Stepped
    => \A i \in 1..Len(hist.poked) :
         (\A j \in (1..Len(hist.poked)) \ {i} :
            (hist.poked[i].x - hist.poked[j].x) * (hist.poked[i].x - hist.poked[j].x)
              + (hist.poked[i].y - hist.poked[j].y) * (hist.poked[i].y - hist.poked[j].y)
              >= RADIUS * RADIUS)
           => hist.classified[i].phase = PLASMA

\* a neuron that was SOLID among neighbours is alone at the start of a later step,
\* under a mutated spider, and is classified PLASMA
C7_Witness ==
  /\ Stepped
  /\ hist.spider[1].id > 0
  /\ \E i \in 1..Len(hist.poked) :
       /\ hist.poked[i].phase = SOLID
       /\ hist.neighborhoods[i] = <<>>
       /\ hist.classified[i].phase = PLASMA

\* C8 as stated: after every step the coordinates of every neuron, and of the
\* predator when there is one, lie in [0,1)
C8_PositionsWrapped ==
  /\ \A i \in 1..Len(neurons) :
       /\ 0 <= neurons[i].x /\ neurons[i].x < Q
       /\ 0 <= neurons[i].y /\ neurons[i].y < Q
  /\ predator # <<>>
       => /\ 0 <= predator[1].x /\ predator[1].x < Q
          /\ 0 <= predator[1].y /\ predator[1].y < Q

\* C9: the poke acts in the step with index POKE_STEP and in no other: there, before
\* the classification, neuron POKE_NEURON has state POKE_VALUE and phase LIQUID and
\* every other neuron is as it was; in every other step no neuron is touched
C9_PokeOnlyAtPokeStep ==
  Stepped
    => IF hist.step = cfg.POKE_STEP
       THEN /\ Len(hist.poked) = Len(hist.pre)
            /\ hist.poked[cfg.POKE_NEURON + 1].state = POKE_VALUE
            /\ hist.poked[cfg.POKE_NEURON + 1].phase = LIQUID
            /\ \A j \in (1..Len(hist.pre)) \ {cfg.POKE_NEURON + 1} :
                 hist.poked[j] = hist.pre[j]
       ELSE hist.poked = hist.pre

\* the poke step of a population of several neurons, whose target had another state
\* and another phase before
C9_Witness ==
  /\ Stepped
  /\ hist.step = cfg.POKE_STEP
  /\ Len(hist.pre) >= 2
  /\ hist.pre[cfg.POKE_NEURON + 1].state # POKE_VALUE
  /\ hist.pre[cfg.POKE_NEURON + 1].phase # LIQUID
  /\ hist.poked[cfg.POKE_NEURON + 1].state = POKE_VALUE

\* C10 as stated: no step fails because of the poke target index
C10_NoStepFails == error = "none"

\* the 0-based indices of the agents ns
Indices(ns) == 0..(Len(ns) - 1)

\* agents a and b of ns are adjacent: same state and distance below radius
Adjacent(ns, radius, a, b) ==
  /\ ns[a + 1].state = ns[b + 1].state
  /\ (ns[a + 1].x - ns[b + 1].x) * (ns[a + 1].x - ns[b + 1].x)
       + (ns[a + 1].y - ns[b + 1].y) * (ns[a + 1].y - ns[b + 1].y) < radius * radius

\* the indices connected to those of S by a path of adjacent agents
RECURSIVE Component(_, _, _)
Component(ns, radius, S) ==
  LET more == S \cup {b \in Indices(ns) : \E a \in S : Adjacent(ns, radius, a, b)}
  IN  IF more = S THEN S ELSE Component(ns, radius, more)

\* C11 as stated: two agents are in the same returned cluster if and only if a path
\* of agents, each consecutive pair in the same state and at a distance below
\* radius, connects them
C11_ConnectedComponents ==
  detected # <<>>
    => LET d == detected[1]
       IN  \A a, b \in Indices(d.agents) :
             (\E c \in 1..Len(d.clusters) : a \in d.clusters[c] /\ b \in d.clusters[c])
               <=> b \in Component(d.agents, d.radius, {a})

\* C12: the returned clusters are a partition of the agent indices: every index is
\* in exactly one cluster and no cluster is empty; and the call leaves every agent's
\* state, phase, memory and position as it was
C12_ClustersPartition ==
  detected # <<>>
    => LET d == detected[1]
       IN  /\ \A a \in Indices(d.agents) :
                 Cardinality({c \in 1..Len(d.clusters) : a \in d.clusters[c]}) = 1
           /\ \A c \in 1..Len(d.clusters) :
                 d.clusters[c] # {} /\ d.clusters[c] \subseteq Indices(d.agents)
           /\ neurons = d.agents

\* a call on three agents that returned a cluster of two and a singleton whose
\* agent is adjacent to a member of the first
C12_Witness ==
  /\ detected # <<>>
  /\ Len(detected[1].agents) = 3
  /\ Len(detected[1].clusters) = 2
  /\ \E a, b \in Indices(detected[1].agents) :
       /\ detected[1].clusters[2] = {b}
       /\ a \in detected[1].clusters[1]
       /\ Adjacent(detected[1].agents, detected[1].radius, a, b)

\* the agents of ns within PREDATOR_RADIUS of the predator p
InReach(ns, p) ==
  {i \in 1..Len(ns) :
     (ns[i].x - p.x) * (ns[i].x - p.x) + (ns[i].y - p.y) * (ns[i].y - p.y)
       < PREDATOR_RADIUS * PREDATOR_RADIUS}

PairDistance2(ns) ==
  (ns[1].x - ns[2].x) * (ns[1].x - ns[2].x) + (ns[1].y - ns[2].y) * (ns[1].y - ns[2].y)

\* the two agents of ns are farther apart than rounding can hide: along x or along y,
\* DRIFT times their gap is at least the spacing of the representable values at
\* their coordinates
BeyondRounding(ns) ==
  LET s == Spacing(Max(Max(ns[1].x, ns[2].x), Max(ns[1].y, ns[2].y)))
  IN  \/ cfg.DRIFT * Abs(ns[1].x - ns[2].x) >= Q * s
      \/ cfg.DRIFT * Abs(ns[1].y - ns[2].y) >= Q * s

\* what C14 says of every step but for the distance: two agents, none classified
\* PLASMA, each in the state it began the step with, and the spider kept
PairKeepsStates ==
  /\ Len(neurons) = 2
  /\ \A i \in 1..2 :
       /\ hist.classified[i].phase # PLASMA
       /\ neurons[i].state = hist.pre[i].state
  /\ spider = hist.spider[1]

\* C14 as stated: in every step of the pair neither agent is classified PLASMA,
\* neither state changes, the spider is not replaced, and the distance between the
\* two after the step is strictly smaller than before it, while that is not zero
C14_PairConverges ==
  Stepped
    => /\ PairKeepsStates
       /\ PairDistance2(hist.pre) # 0
            => PairDistance2(neurons) < PairDistance2(hist.pre)

\* C14 amended: in every step of the pair neither agent is classified PLASMA, neither
\* state changes, the spider is not replaced, the distance between the two after
\* the step is not larger than before it, and it is strictly smaller while the two
\* are farther apart than rounding can hide
C14_PairConvergesToRounding ==
  Stepped
    => /\ PairKeepsStates
       /\ PairDistance2(neurons) <= PairDistance2(hist.pre)
       /\ BeyondRounding(hist.pre)
            => PairDistance2(neurons) < PairDistance2(hist.pre)

\* a step of the pair after the poke step: both agents SOLID, and they came closer
\* along both axes
C14_Witness ==
  /\ Stepped
  /\ hist.step > cfg.POKE_STEP
  /\ \A i \in 1..2 : hist.classified[i].phase = SOLID
  /\ BeyondRounding(hist.pre)
  /\ Abs(neurons[1].x - neurons[2].x) < Abs(hist.pre[1].x - hist.pre[2].x)
  /\ Abs(neurons[1].y - neurons[2].y) < Abs(hist.pre[1].y - hist.pre[2].y)

\* the spatial update as C15 describes it: the inner loop for agent i of ns, at its
\* neighbour nb[j], attracting when agent i and that neighbour are in the same state
\* in old, the list the classification saw
RECURSIVE DriftByOldStates(_, _, _, _, _, _)
DriftByOldStates(n, ns, nb, j, old, i) ==
  IF j > Len(nb) THEN n
  ELSE LET m == ns[nb[j]]
           dx == Fl(m.x - n.x)
           dy == Fl(m.y - n.y)
       IN  IF old[i].state = old[nb[j]].state
           THEN DriftByOldStates([n EXCEPT !.x = Fl(n.x + Mul(cfg.DRIFT, dx)),
                                           !.y = Fl(n.y + Mul(cfg.DRIFT, dy))],
                                 ns, nb, j + 1, old, i)
           ELSE DriftByOldStates([n EXCEPT !.x = Fl(n.x - Mul(cfg.DRIFT, dx)),
                                           !.y = Fl(n.y - Mul(cfg.DRIFT, dy))],
                                 ns, nb, j + 1, old, i)

RECURSIVE SpatialUpdatesByOldStates(_, _, _, _, _)
SpatialUpdatesByOldStates(ns, nbh, draws, i, old) ==
  IF i > Len(ns) THEN ns
  ELSE LET n == DriftByOldStates(ns[i], ns, nbh[i], 1, old, i)
           placed == [n EXCEPT !.x = PyMod1(Fl(n.x + Noise(draws[i].rx))),
                               !.y = PyMod1(Fl(n.y + Noise(draws[i].ry)))]
       IN  SpatialUpdatesByOldStates([ns EXCEPT ![i] = placed], nbh, draws, i + 1, old)

\* C15 as stated: the positions the spatial update of a step leaves are those of
\* attracting and repelling by the states the classification of that step saw, not
\* by the states its state update wrote
C15_DriftByOldStates ==
  Stepped
    => hist.placed = SpatialUpdatesByOldStates(hist.stated, hist.neighborhoods,
                                               hist.rnd.neuron, 1, hist.classified)

\* the state update and the spatial update of the last step as C16 describes them:
\* every agent handled with the other agents as they were at the start of the step,
\* after the poke (hist.classified holds their states and positions then)
SnapshotStated ==
  [i \in 1..Len(hist.classified) |->
     StateUpdate(hist.classified, i, hist.neighborhoods[i], hist.rnd.neuron[i].k)]

SnapshotPlaced ==
  [i \in 1..Len(hist.stated) |->
     LET n == Drift(hist.stated[i], hist.classified, hist.neighborhoods[i], 1)
     IN  [n EXCEPT !.x = PyMod1(Fl(n.x + Noise(hist.rnd.neuron[i].rx))),
                   !.y = PyMod1(Fl(n.y + Noise(hist.rnd.neuron[i].ry)))]]

\* C16 as stated: the state update and the spatial update of a step read of every
\* other agent the state and the position it had at the start of the step, after the
\* poke, so that what they leave is what that snapshot gives
C16_ReadsSeeStartOfStep ==
  Stepped => (hist.stated = SnapshotStated /\ hist.placed = SnapshotPlaced)

\* C17: an agent classified SOLID in a step ends the step in the state it had at the
\* end of the step before (its memory), also when the poke of this step had set its
\* state: a poked agent classified SOLID ends the poke step in its state from before
\* the poke
C17_SolidRestoresMemory ==
  Stepped
    => \A i \in 1..Len(hist.classified) :
         hist.classified[i].phase = SOLID
           => /\ hist.placed[i].state = hist.pre[i].memory
              /\ hist.placed[i].state = hist.pre[i].state
              /\ \A j \in 1..Len(neurons) :
                   neurons[j].id = hist.pre[i].id => neurons[j].state = hist.pre[i].state

\* a poke step in which the poked agent had another state than the poke value, was
\* classified SOLID, ended the step in its state from before the poke and was not
\* eaten
C17_Witness ==
  /\ Stepped
  /\ hist.step = cfg.POKE_STEP
  /\ hist.pre[cfg.POKE_NEURON + 1].state # POKE_VALUE
  /\ hist.poked[cfg.POKE_NEURON + 1].state = POKE_VALUE
  /\ hist.classified[cfg.POKE_NEURON + 1].phase = SOLID
  /\ \E j \in 1..Len(neurons) :
       /\ neurons[j].id = hist.pre[cfg.POKE_NEURON + 1].id
       /\ neurons[j].state = hist.pre[cfg.POKE_NEURON + 1].state

\* C18: after every step in which a predator exists its hunger timer is 0 if it ate
\* in that step, and otherwise 1 more than when it was about to move, whether it
\* teleported or stepped; and it is never negative
C18_HungerTimer ==
  /\ predator # <<>> => predator[1].hunger_timer >= 0
  /\ (Stepped /\ predator # <<>>)
       => IF Len(neurons) < Len(hist.placed)
          THEN predator[1].hunger_timer = 0
          ELSE predator[1].hunger_timer = hist.spawned[1].hunger_timer + 1

\* a predator hungry for more than 50 steps teleported and found nothing to eat
\* there: its hunger timer went up by 1
C18_Witness ==
  /\ Stepped
  /\ hist.spawned # <<>>
  /\ hist.spawned[1].hunger_timer > 50
  /\ hist.rnd.teleport.coin < 200
  /\ hist.moved[1].x = hist.rnd.teleport.x
  /\ hist.moved[1].y = hist.rnd.teleport.y
  /\ Len(neurons) = Len(hist.placed)
  /\ predator[1].hunger_timer = hist.spawned[1].hunger_timer + 1

\* C19: the spawn countdown stays within 0..PREDATOR_INTERVAL; there is no predator
\* until the steps 0 to PREDATOR_INTERVAL - 1 are done, the step PREDATOR_INTERVAL
\* is the first to construct one, and there is a predator after that step and after
\* every later one
C19_CountdownAndFirstSpawn ==
  /\ predator_timer \in 0..cfg.PREDATOR_INTERVAL
  /\ frame <= cfg.PREDATOR_INTERVAL => predator = <<>>
  /\ frame > cfg.PREDATOR_INTERVAL => predator # <<>>
  /\ Stepped
       => /\ hist.step < cfg.PREDATOR_INTERVAL => hist.spawned = <<>>
          /\ hist.step = cfg.PREDATOR_INTERVAL
               => (hist.before = <<>> /\ hist.spawned = <<Predator(1, hist.rnd.spawn)>>)
          /\ hist.step > cfg.PREDATOR_INTERVAL => hist.before # <<>>

\* with a countdown from 1 or more, two steps after the first spawn: the countdown
\* is running again and there is a predator
C19_Witness ==
  /\ Stepped
  /\ cfg.PREDATOR_INTERVAL >= 1
  /\ hist.step = cfg.PREDATOR_INTERVAL + 1
  /\ hist.before # <<>>
  /\ predator # <<>>
  /\ predator_timer = cfg.PREDATOR_INTERVAL - 1

\* the agents of ns as objects, in list order
IdSeq(ns) == [i \in 1..Len(ns) |-> ns[i].id]

\* C20: after every step the population is the population from before the step
\* without the agents eaten, the others in the order they had; a step without a
\* predator leaves the same agents; and over a step that keeps its predator the
\* population size plus the eaten count does not change
C20_PredationFilters ==
  Stepped
    => /\ IdSeq(neurons)
            = SelectSeq(IdSeq(hist.pre), LAMBDA id : id \in Ids(neurons))
       /\ Cardinality(Ids(hist.pre)) = Len(hist.pre)
       /\ hist.moved = <<>> => IdSeq(neurons) = IdSeq(hist.pre)
       /\ (hist.before # <<>> /\ hist.spawned = hist.before)
            => Len(neurons) + predator[1].neurons_eaten
                 = Len(hist.pre) + hist.before[1].neurons_eaten

\* a predator that was not replaced in the step ate one of three agents, not the
\* last of the list, and left the two others
C20_Witness ==
  /\ Stepped
  /\ hist.before # <<>>
  /\ hist.spawned = hist.before
  /\ Len(hist.pre) = 3
  /\ Len(neurons) = 2
  /\ neurons[2].id = hist.pre[3].id
  /\ predator[1].neurons_eaten = hist.before[1].neurons_eaten + 1

====
